---- MODULE Spec2Model ----
(***************************************************************************)
(* Model of the Power HAL request-dispatch core                            *)
(* (power-libperfmgr/aidl/Power.cpp): the two global flags, the negotiated *)
(* interface version, the hint backend's active hint set, and the request  *)
(* handlers setMode, setBoost, isModeSupported, isBoostSupported, dump,    *)
(* getHintSessionPreferredRate and createHintSessionWithConfig.            *)
(*                                                                         *)
(* A handler is one atomic action in the sequential specifications; in     *)
(* SpecConcurrent two requests run on two threads, a step at a time, and   *)
(* `inflight` holds them.  The collaborator calls a handler makes          *)
(* (HintManager, device hooks, session manager, interaction handler) are   *)
(* written, in program order, to the variable `events`, so that "makes a   *)
(* backend call", "sends the signal", "queries the backend" are facts of   *)
(* the state reached by the request recorded in `req`.                     *)
(***************************************************************************)
EXTENDS Integers, Sequences, FiniteSets, TLC

VARIABLES
    mSustainedPerfModeOn,   \* Power::mSustainedPerfModeOn
    mBatterySaverOn,        \* Power::mBatterySaverOn
    mServiceVersion,        \* Power::mServiceVersion
    hints,                  \* the backend's set of active named hints
    adpfSupported,          \* HintManager::IsAdpfSupported()
    req,                    \* the request handled last, with its inputs
    events,                 \* the collaborator calls that request made, in order
    ret,                    \* what that request returned
    inflight                \* the requests being handled on binder threads

vars == <<mSustainedPerfModeOn, mBatterySaverOn, mServiceVersion, hints,
          adpfSupported, req, events, ret, inflight>>

(***************************************************************************)
(* Bounds of the model.                                                    *)
(***************************************************************************)
\* Negotiated versions range over 0 .. MaxVersion.
MaxVersion == 6
\* Boost durations range over -MaxDurationMs .. MaxDurationMs.
MaxDurationMs == 1
\* The backend's reporting-rate limit ranges over -1 .. MaxRateLimitNs.
MaxRateLimitNs == 1
\* A session request names 0 .. MaxThreadIds threads.
MaxThreadIds == 1

Versions == 0..MaxVersion
DurationsMs == (0 - MaxDurationMs)..MaxDurationMs
RateLimitsNs == -1..MaxRateLimitNs
ThreadIdCounts == 0..MaxThreadIds

(***************************************************************************)
(* android.hardware.power.Mode and Boost: the enumerators by their         *)
(* integral value, which is what the version gates compare.                *)
(***************************************************************************)
DOUBLE_TAP_TO_WAKE == 0
LOW_POWER == 1
SUSTAINED_PERFORMANCE == 2
FIXED_PERFORMANCE == 3
LAUNCH == 5
EXPENSIVE_RENDERING == 6
INTERACTIVE == 7
DEVICE_IDLE == 8
DISPLAY_INACTIVE == 9
AUDIO_STREAMING_LOW_LATENCY == 10
CAMERA_STREAMING_HIGH == 14
GAME_LOADING == 16
AUTOMOTIVE_PROJECTION == 18

INTERACTION == 0
DISPLAY_UPDATE_IMMINENT == 1
ML_ACC == 2
AUDIO_LAUNCH == 3
CAMERA_SHOT == 5

Mode == DOUBLE_TAP_TO_WAKE..AUTOMOTIVE_PROJECTION
Boost == INTERACTION..CAMERA_SHOT

\* The enumerators' names, in the order of their values from 0.
ModeNames ==
    <<"DOUBLE_TAP_TO_WAKE", "LOW_POWER", "SUSTAINED_PERFORMANCE", "FIXED_PERFORMANCE",
      "VR", "LAUNCH", "EXPENSIVE_RENDERING", "INTERACTIVE", "DEVICE_IDLE",
      "DISPLAY_INACTIVE", "AUDIO_STREAMING_LOW_LATENCY", "CAMERA_STREAMING_SECURE",
      "CAMERA_STREAMING_LOW", "CAMERA_STREAMING_MID", "CAMERA_STREAMING_HIGH", "GAME",
      "GAME_LOADING", "DISPLAY_CHANGE", "AUTOMOTIVE_PROJECTION">>

BoostNames ==
    <<"INTERACTION", "DISPLAY_UPDATE_IMMINENT", "ML_ACC", "AUDIO_LAUNCH",
      "CAMERA_LAUNCH", "CAMERA_SHOT">>

\* toString(Mode)
ModeName(type) == ModeNames[type + 1]

\* toString(Boost)
BoostName(type) == BoostNames[type + 1]

\* static const std::vector<Mode> kAlwaysAllowedModes
kAlwaysAllowedModes == {DOUBLE_TAP_TO_WAKE, DEVICE_IDLE, DISPLAY_INACTIVE}

(***************************************************************************)
(* The modes and boosts the dispatch requests are drawn from: one or more  *)
(* of every kind the handlers tell apart (both global modes, all three     *)
(* allow-listed modes, ordinary modes introduced at versions 1 and 3, the  *)
(* INTERACTION boost and an ordinary boost).                               *)
(***************************************************************************)
DispatchModes == {DOUBLE_TAP_TO_WAKE, LOW_POWER, SUSTAINED_PERFORMANCE, LAUNCH,
                  EXPENSIVE_RENDERING, DEVICE_IDLE, DISPLAY_INACTIVE, GAME_LOADING}
DispatchBoosts == {INTERACTION, ML_ACC}

\* The inputs of SpecRequests: the two global modes and an ordinary
\* mode; for the queries a mode of each version cutoff and
\* LOW_POWER, and the first and the last ranked boost.
RequestModes == {LOW_POWER, SUSTAINED_PERFORMANCE, LAUNCH}
QueryModes == {LOW_POWER, LAUNCH, GAME_LOADING, AUTOMOTIVE_PROJECTION}
QueryBoosts == {INTERACTION, CAMERA_SHOT}

\* The values the three persisted properties are read with.
StatePropValues == {"", "SUSTAINED_PERFORMANCE", "LOW_POWER"}
AudioPropValues == {"", "AUDIO_STREAMING_LOW_LATENCY"}
RenderingPropValues == {"", "EXPENSIVE_RENDERING"}

(***************************************************************************)
(* Collaborator calls, as recorded in `events`.                            *)
(***************************************************************************)
Event(fn, name, ms, on) == [fn |-> fn, name |-> name, ms |-> ms, on |-> on]

\* HintManager::DoHint(name)
DoHintCall(name) == Event("DoHint", name, 0, TRUE)
\* HintManager::DoHint(name, timeout)
DoHintTimedCall(name, ms) == Event("DoHint", name, ms, TRUE)
\* HintManager::EndHint(name)
EndHintCall(name) == Event("EndHint", name, 0, FALSE)
\* PowerSessionManager::updateHintMode(name, enabled)
UpdateHintModeCall(name, enabled) == Event("updateHintMode", name, 0, enabled)
\* setDeviceSpecificMode(type, enabled)
SetDeviceSpecificModeCall(name, enabled) == Event("setDeviceSpecificMode", name, 0, enabled)
\* isDeviceSpecificModeSupported(type, _aidl_return)
IsDeviceSpecificModeSupportedCall(name) == Event("isDeviceSpecificModeSupported", name, 0, FALSE)
\* InteractionHandler::Acquire(durationMs)
AcquireCall(ms) == Event("Acquire", "INTERACTION", ms, TRUE)
\* HintManager::IsHintSupported(name)
IsHintSupportedCall(name) == Event("IsHintSupported", name, 0, FALSE)
\* HintManager::IsAdpfProfileSupported(name)
IsAdpfProfileSupportedCall(name) == Event("IsAdpfProfileSupported", name, 0, FALSE)
\* HintManager::GetAdpfProfile()
GetAdpfProfileCall == Event("GetAdpfProfile", "", 0, FALSE)
\* PowerHintSession::getSessionConfig(config)
GetSessionConfigCall == Event("getSessionConfig", "", 0, FALSE)
\* PowerSessionManager::registerSession(session, config->id)
RegisterSessionCall == Event("registerSession", "", 0, TRUE)
\* HintManager::IsRunning()
IsRunningCall == Event("IsRunning", "", 0, FALSE)
\* HintManager::DumpToFd(fd)
DumpToFdCall == Event("DumpToFd", "", 0, FALSE)
\* PowerSessionManager::dumpToFd(fd)
SessionDumpToFdCall == Event("dumpToFd", "", 0, FALSE)
\* android::base::WriteStringToFd(buf, fd); on is whether it succeeded.
WriteStringToFdCall(ok) == Event("WriteStringToFd", "", 0, ok)

(***************************************************************************)
(* The hint backend: activating a hint puts its name in the active set,    *)
(* deactivating takes it out, both idempotent.                             *)
(***************************************************************************)
ApplyCall(h, e) ==
    IF e.fn = "DoHint" THEN h \cup {e.name}
    ELSE IF e.fn = "EndHint" THEN h \ {e.name}
    ELSE h

RECURSIVE ApplyCalls(_, _)
ApplyCalls(h, ev) ==
    IF ev = <<>> THEN h ELSE ApplyCalls(ApplyCall(h, Head(ev)), Tail(ev))

\* HintManager::GetHints(), in the backend's order of enumeration.
RECURSIVE GetHints(_)
GetHints(h) ==
    IF h = {} THEN <<>>
    ELSE LET x == CHOOSE y \in h : TRUE IN <<x>> \o GetHints(h \ {x})

(***************************************************************************)
(* endAllHints                                                             *)
(***************************************************************************)
\* The lambda of std::any_of: hint is the name of an always-allowed mode.
IsAlwaysAllowedHint(hint) == \E mode \in kAlwaysAllowedModes : hint = ModeName(mode)

RECURSIVE EndAllHintsOver(_)
EndAllHintsOver(hs) ==
    IF hs = <<>> THEN <<>>
    ELSE (IF IsAlwaysAllowedHint(Head(hs)) THEN <<>> ELSE <<EndHintCall(Head(hs))>>)
         \o EndAllHintsOver(Tail(hs))

endAllHints(h) == EndAllHintsOver(GetHints(h))

(***************************************************************************)
(* Power::Power                                                            *)
(***************************************************************************)
\* Mutant: the startup hints pass through the exclusivity gate.
PowerEventsGated(state, audio, rendering) ==
    IF state = "SUSTAINED_PERFORMANCE" THEN <<DoHintCall("SUSTAINED_PERFORMANCE")>>
    ELSE (IF audio = "AUDIO_STREAMING_LOW_LATENCY" THEN <<DoHintCall(audio)>> ELSE <<>>)
         \o (IF rendering = "EXPENSIVE_RENDERING"
             THEN <<DoHintCall("EXPENSIVE_RENDERING")>> ELSE <<>>)

\* The hints the constructor activates, from the three persisted properties.
PowerEvents(state, audio, rendering) ==
    (IF state = "SUSTAINED_PERFORMANCE" THEN <<DoHintCall("SUSTAINED_PERFORMANCE")>> ELSE <<>>)
    \o (IF audio = "AUDIO_STREAMING_LOW_LATENCY" THEN <<DoHintCall(audio)>> ELSE <<>>)
    \o (IF rendering = "EXPENSIVE_RENDERING" THEN <<DoHintCall("EXPENSIVE_RENDERING")>> ELSE <<>>)

\* The state after construction: the flags, the version captured from
\* getInterfaceVersion, and the hints activated at startup.
Init ==
    \E state \in StatePropValues, audio \in AudioPropValues,
       rendering \in RenderingPropValues :
        /\ mServiceVersion \in Versions
        /\ adpfSupported \in BOOLEAN
        /\ req = [op |-> "Power", state |-> state, audio |-> audio,
                  rendering |-> rendering]
        /\ events = PowerEvents(state, audio, rendering)
        /\ hints = ApplyCalls({}, events)
        /\ mSustainedPerfModeOn = (state = "SUSTAINED_PERFORMANCE")
        /\ mBatterySaverOn = FALSE
        /\ ret = [status |-> "ok", value |-> FALSE]
        /\ inflight = <<>>

(***************************************************************************)
(* Power::setMode                                                          *)
(***************************************************************************)
\* Mutant: the allow-list is not consulted.
ModeSuppressedNoAllowList(type, sp, bs) == bs \/ sp

\* Mutant: suppression only when both flags are set.
ModeSuppressedBothFlags(type, sp, bs) ==
    (bs /\ sp) /\ type \notin kAlwaysAllowedModes

\* The exclusivity gate of the default case.
ModeSuppressed(type, sp, bs) ==
    (bs \/ sp) /\ type \notin kAlwaysAllowedModes

\* Mutant: the sweep runs after the global mode's hint is activated.
setModeSwitchSweepLast(type, enabled, sp, bs, h) ==
    CASE type = SUSTAINED_PERFORMANCE ->
            IF enabled THEN <<DoHintCall("SUSTAINED_PERFORMANCE")>>
                            \o endAllHints(h \cup {"SUSTAINED_PERFORMANCE"})
            ELSE <<EndHintCall("SUSTAINED_PERFORMANCE")>>
      [] type = LOW_POWER ->
            IF enabled THEN <<DoHintCall("LOW_POWER")>>
                            \o endAllHints(h \cup {"LOW_POWER"})
            ELSE <<EndHintCall("LOW_POWER")>>
      [] OTHER ->
            IF (bs \/ sp) /\ type \notin kAlwaysAllowedModes THEN <<>>
            ELSE IF enabled THEN <<DoHintCall(ModeName(type))>>
            ELSE <<EndHintCall(ModeName(type))>>

\* Mutant: disabling a global mode leaves its hint active.
setModeSwitchDisableKeepsHint(type, enabled, sp, bs, h) ==
    CASE type = SUSTAINED_PERFORMANCE ->
            IF enabled THEN endAllHints(h) \o <<DoHintCall("SUSTAINED_PERFORMANCE")>>
            ELSE <<>>
      [] type = LOW_POWER ->
            IF enabled THEN endAllHints(h) \o <<DoHintCall("LOW_POWER")>>
            ELSE <<>>
      [] OTHER ->
            IF ModeSuppressed(type, sp, bs) THEN <<>>
            ELSE IF enabled THEN <<DoHintCall(ModeName(type))>>
            ELSE <<EndHintCall(ModeName(type))>>

\* The switch over the mode: the backend calls it makes.
setModeSwitch(type, enabled, sp, bs, h) ==
    CASE type = SUSTAINED_PERFORMANCE ->
            IF enabled THEN endAllHints(h) \o <<DoHintCall("SUSTAINED_PERFORMANCE")>>
            ELSE <<EndHintCall("SUSTAINED_PERFORMANCE")>>
      [] type = LOW_POWER ->
            IF enabled THEN endAllHints(h) \o <<DoHintCall("LOW_POWER")>>
            ELSE <<EndHintCall("LOW_POWER")>>
      [] OTHER ->
            IF ModeSuppressed(type, sp, bs) THEN <<>>
            ELSE IF enabled THEN <<DoHintCall(ModeName(type))>>
            ELSE <<EndHintCall(ModeName(type))>>

\* Mutant: the flag is set on enable and never cleared on disable.
setModeSustainedPerfStuck(type, enabled, sp) ==
    IF type = SUSTAINED_PERFORMANCE THEN (enabled \/ sp) ELSE sp

\* Mutant: enabling LOW_POWER clears the sustained flag.
setModeSustainedPerfExclusive(type, enabled, sp) ==
    IF type = SUSTAINED_PERFORMANCE THEN enabled
    ELSE IF type = LOW_POWER /\ enabled THEN FALSE
    ELSE sp

\* mSustainedPerfModeOn after the switch.
setModeSustainedPerf(type, enabled, sp) ==
    IF type = SUSTAINED_PERFORMANCE THEN enabled ELSE sp

\* Mutant: enabling LOW_POWER flips the flag.
setModeBatterySaverToggle(type, enabled, bs) ==
    IF type = LOW_POWER THEN (enabled /\ ~bs) ELSE bs

\* mBatterySaverOn after the switch.
setModeBatterySaver(type, enabled, bs) ==
    IF type = LOW_POWER THEN enabled ELSE bs

\* Mutant: the session manager is told whatever the backend supports.
setModeNotifyAlways(type, enabled, adpf) ==
    <<UpdateHintModeCall(ModeName(type), enabled)>>

\* The session manager is told first, when the backend supports ADPF.
setModeNotify(type, enabled, adpf) ==
    IF adpf THEN <<UpdateHintModeCall(ModeName(type), enabled)>> ELSE <<>>

\* Mutant: the switch runs although the device hook handled the request.
setModeDispatchIgnoresHook(type, enabled, handled, sp, bs, h) ==
    setModeSwitch(type, enabled, sp, bs, h)

\* The early return when setDeviceSpecificMode handled the request, and the
\* switch otherwise.
setModeDispatch(type, enabled, handled, sp, bs, h) ==
    IF handled THEN <<>> ELSE setModeSwitch(type, enabled, sp, bs, h)

\* setMode(type, enabled); handled is what setDeviceSpecificMode returns.
setMode(type, enabled, handled) ==
    LET head == setModeNotify(type, enabled, adpfSupported)
                \o <<SetDeviceSpecificModeCall(ModeName(type), enabled)>>
        calls == setModeDispatch(type, enabled, handled, mSustainedPerfModeOn,
                                 mBatterySaverOn, hints)
    IN  /\ req' = [op |-> "setMode", type |-> type, enabled |-> enabled,
                   handled |-> handled]
        /\ events' = head \o calls
        /\ hints' = ApplyCalls(hints, calls)
        /\ mSustainedPerfModeOn' =
              IF handled THEN mSustainedPerfModeOn
              ELSE setModeSustainedPerf(type, enabled, mSustainedPerfModeOn)
        /\ mBatterySaverOn' =
              IF handled THEN mBatterySaverOn
              ELSE setModeBatterySaver(type, enabled, mBatterySaverOn)
        /\ ret' = [status |-> "ok", value |-> FALSE]
        /\ UNCHANGED <<mServiceVersion, adpfSupported, inflight>>

(***************************************************************************)
(* Power::setBoost                                                         *)
(***************************************************************************)
\* Mutant: battery saver does not suppress boosts.
BoostSuppressedSustainedOnly(sp, bs) == sp

\* The guard both cases of the switch start with.
BoostSuppressed(sp, bs) == sp \/ bs

\* Mutant: a zero duration ends the hint.
setBoostSwitchZeroEnds(type, durationMs, sp, bs) ==
    CASE type = INTERACTION ->
            IF sp \/ bs THEN <<>> ELSE <<AcquireCall(durationMs)>>
      [] OTHER ->
            IF sp \/ bs THEN <<>>
            ELSE IF durationMs > 0 THEN <<DoHintTimedCall(BoostName(type), durationMs)>>
            ELSE <<EndHintCall(BoostName(type))>>

\* Mutant: the INTERACTION case falls through to the default case.
setBoostSwitchFallthrough(type, durationMs, sp, bs) ==
    IF sp \/ bs THEN <<>>
    ELSE (IF type = INTERACTION THEN <<AcquireCall(durationMs)>> ELSE <<>>)
         \o (IF durationMs > 0 THEN <<DoHintTimedCall(BoostName(type), durationMs)>>
             ELSE IF durationMs = 0 THEN <<DoHintCall(BoostName(type))>>
             ELSE <<EndHintCall(BoostName(type))>>)

\* The switch over the boost: the collaborator calls it makes.
setBoostSwitch(type, durationMs, sp, bs) ==
    CASE type = INTERACTION ->
            IF BoostSuppressed(sp, bs) THEN <<>>
            ELSE <<AcquireCall(durationMs)>>
      [] OTHER ->
            IF BoostSuppressed(sp, bs) THEN <<>>
            ELSE IF durationMs > 0 THEN <<DoHintTimedCall(BoostName(type), durationMs)>>
            ELSE IF durationMs = 0 THEN <<DoHintCall(BoostName(type))>>
            ELSE <<EndHintCall(BoostName(type))>>

\* setBoost(type, durationMs)
setBoost(type, durationMs) ==
    LET calls == setBoostSwitch(type, durationMs, mSustainedPerfModeOn, mBatterySaverOn)
    IN  /\ req' = [op |-> "setBoost", type |-> type, durationMs |-> durationMs]
        /\ events' = calls
        /\ hints' = ApplyCalls(hints, calls)
        /\ ret' = [status |-> "ok", value |-> FALSE]
        /\ UNCHANGED <<mSustainedPerfModeOn, mBatterySaverOn, mServiceVersion,
                       adpfSupported, inflight>>

(***************************************************************************)
(* Power::isModeSupported                                                  *)
(***************************************************************************)
\* Mutant: case 2 is placed with cases 3 and 4.
ModeVersionGateCase2(version, type) ==
    IF version = 5 /\ type <= AUTOMOTIVE_PROJECTION THEN TRUE
    ELSE IF version \in {2, 3, 4, 5} /\ type <= GAME_LOADING THEN TRUE
    ELSE IF version \in {1, 2, 3, 4, 5} /\ type <= CAMERA_STREAMING_HIGH THEN TRUE
    ELSE FALSE

\* The switch over mServiceVersion: TRUE when it breaks out to the backend
\* query, FALSE when it falls through to the default case.
ModeVersionGate(version, type) ==
    IF version = 5 /\ type <= AUTOMOTIVE_PROJECTION THEN TRUE
    ELSE IF version \in {3, 4, 5} /\ type <= GAME_LOADING THEN TRUE
    ELSE IF version \in {1, 2, 3, 4, 5} /\ type <= CAMERA_STREAMING_HIGH THEN TRUE
    ELSE FALSE

\* The backend queries made after the version gate, with the backend's
\* answers hintSupported and profileSupported.
isModeSupportedQueries(type, hintSupported) ==
    (IF type = LOW_POWER THEN <<>> ELSE <<IsHintSupportedCall(ModeName(type))>>)
    \o (IF type = LOW_POWER \/ hintSupported THEN <<>>
        ELSE <<IsAdpfProfileSupportedCall(ModeName(type))>>)

\* Mutant: LOW_POWER is not special-cased.
isModeSupportedBackendNoLowPower(type, hintSupported, profileSupported) ==
    hintSupported \/ profileSupported

\* The value of `supported` after the backend queries.
isModeSupportedBackend(type, hintSupported, profileSupported) ==
    (type = LOW_POWER \/ hintSupported) \/ profileSupported

\* The collaborator calls of isModeSupported.
isModeSupportedEvents(type, version, claimed, hintSupported) ==
    <<IsDeviceSpecificModeSupportedCall(ModeName(type))>>
    \o (IF claimed \/ ~ModeVersionGate(version, type) THEN <<>>
        ELSE isModeSupportedQueries(type, hintSupported))

\* Mutant: under a global flag only allow-listed modes are reported.
isModeSupportedValueSuppressed(type, version, claimed, answer, hintSupported, profileSupported) ==
    IF claimed THEN answer
    ELSE IF ~ModeVersionGate(version, type) THEN FALSE
    ELSE IF ModeSuppressed(type, mSustainedPerfModeOn, mBatterySaverOn) THEN FALSE
    ELSE isModeSupportedBackend(type, hintSupported, profileSupported)

\* *_aidl_return of isModeSupported.
isModeSupportedValue(type, version, claimed, answer, hintSupported, profileSupported) ==
    IF claimed THEN answer
    ELSE IF ~ModeVersionGate(version, type) THEN FALSE
    ELSE isModeSupportedBackend(type, hintSupported, profileSupported)

\* isModeSupported(type): the device hook claims an answer or not, and the
\* backend answers the two capability queries for the mode's name.
isModeSupported(type, claimed, answer, hintSupported, profileSupported) ==
    /\ req' = [op |-> "isModeSupported", type |-> type, claimed |-> claimed,
               answer |-> answer, hintSupported |-> hintSupported,
               profileSupported |-> profileSupported]
    /\ events' = isModeSupportedEvents(type, mServiceVersion, claimed, hintSupported)
    /\ ret' = [status |-> "ok",
               value |-> isModeSupportedValue(type, mServiceVersion, claimed, answer,
                                              hintSupported, profileSupported)]
    /\ UNCHANGED <<mSustainedPerfModeOn, mBatterySaverOn, mServiceVersion, hints,
                   adpfSupported, inflight>>

(***************************************************************************)
(* Power::isBoostSupported                                                 *)
(***************************************************************************)
\* Mutant: version 0 is let through the switch.
BoostVersionGateFromZero(version, type) ==
    IF version \in {0, 1, 2, 3, 4, 5} /\ type <= CAMERA_SHOT THEN TRUE ELSE FALSE

\* The switch over mServiceVersion.
BoostVersionGate(version, type) ==
    IF version \in {1, 2, 3, 4, 5} /\ type <= CAMERA_SHOT THEN TRUE ELSE FALSE

\* The backend queries made after the version gate.
isBoostSupportedQueries(type, hintSupported) ==
    <<IsHintSupportedCall(BoostName(type))>>
    \o (IF hintSupported THEN <<>> ELSE <<IsAdpfProfileSupportedCall(BoostName(type))>>)

\* *_aidl_return of isBoostSupported.
isBoostSupportedValue(type, version, hintSupported, profileSupported) ==
    IF ~BoostVersionGate(version, type) THEN FALSE
    ELSE hintSupported \/ profileSupported

\* isBoostSupported(type)
isBoostSupported(type, hintSupported, profileSupported) ==
    /\ req' = [op |-> "isBoostSupported", type |-> type,
               hintSupported |-> hintSupported,
               profileSupported |-> profileSupported]
    /\ events' = IF BoostVersionGate(mServiceVersion, type)
                 THEN isBoostSupportedQueries(type, hintSupported) ELSE <<>>
    /\ ret' = [status |-> "ok",
               value |-> isBoostSupportedValue(type, mServiceVersion, hintSupported,
                                               profileSupported)]
    /\ UNCHANGED <<mSustainedPerfModeOn, mBatterySaverOn, mServiceVersion, hints,
                   adpfSupported, inflight>>

(***************************************************************************)
(* Power::dump                                                             *)
(***************************************************************************)
\* dump(fd): the write of the flags' text succeeds or fails; either way the
\* handler returns STATUS_OK.
dump(writeOk) ==
    /\ req' = [op |-> "dump", writeOk |-> writeOk]
    /\ events' = <<IsRunningCall, DumpToFdCall, SessionDumpToFdCall,
                   WriteStringToFdCall(writeOk)>>
    /\ ret' = [status |-> "ok", value |-> FALSE]
    /\ UNCHANGED <<mSustainedPerfModeOn, mBatterySaverOn, mServiceVersion, hints,
                   adpfSupported, inflight>>

(***************************************************************************)
(* Power::getHintSessionPreferredRate                                      *)
(***************************************************************************)
\* *outNanoseconds: the profile's mReportingRateLimitNs with ADPF, else 0.
PreferredRateValue(adpf, rateLimitNs) == IF adpf THEN rateLimitNs ELSE 0

\* Mutant: only a negative interval is unsupported.
PreferredRateStatusZeroOk(outNanoseconds) ==
    IF outNanoseconds < 0 THEN "EX_UNSUPPORTED_OPERATION" ELSE "ok"

\* The status returned for the interval.
PreferredRateStatus(outNanoseconds) ==
    IF outNanoseconds <= 0 THEN "EX_UNSUPPORTED_OPERATION" ELSE "ok"

\* getHintSessionPreferredRate(outNanoseconds); rateLimitNs is the value of
\* the backend profile's mReportingRateLimitNs.
getHintSessionPreferredRate(rateLimitNs) ==
    LET out == PreferredRateValue(adpfSupported, rateLimitNs)
    IN  /\ req' = [op |-> "getHintSessionPreferredRate", rateLimitNs |-> rateLimitNs]
        /\ events' = IF adpfSupported THEN <<GetAdpfProfileCall>> ELSE <<>>
        /\ ret' = [status |-> PreferredRateStatus(out), value |-> out]
        /\ UNCHANGED <<mSustainedPerfModeOn, mBatterySaverOn, mServiceVersion, hints,
                       adpfSupported, inflight>>

(***************************************************************************)
(* Power::createHintSessionWithConfig                                      *)
(***************************************************************************)
\* The status returned; size is threadIds.size().
CreateSessionStatus(adpf, size) ==
    IF ~adpf THEN "EX_UNSUPPORTED_OPERATION"
    ELSE IF size = 0 THEN "EX_ILLEGAL_ARGUMENT"
    ELSE "ok"

\* createHintSessionWithConfig(..., threadIds, ...): *_aidl_return is
\* nullptr on either error, and the new session otherwise, which is then
\* registered with the session manager.
createHintSessionWithConfig(size) ==
    LET status == CreateSessionStatus(adpfSupported, size)
    IN  /\ req' = [op |-> "createHintSessionWithConfig", size |-> size]
        /\ events' = IF status = "ok"
                     THEN <<GetSessionConfigCall, RegisterSessionCall>> ELSE <<>>
        /\ ret' = [status |-> status,
                   value |-> IF status = "ok" THEN "session" ELSE "nullptr"]
        /\ UNCHANGED <<mSustainedPerfModeOn, mBatterySaverOn, mServiceVersion, hints,
                       adpfSupported, inflight>>

(***************************************************************************)
(* Requests overlapping on two binder threads.  Power.cpp takes no lock:   *)
(* a handler reads the flags (and, for a sweep, GetHints) when it          *)
(* dispatches, makes its backend calls one at a time, and a global mode    *)
(* writes its flag last.  The other thread may run between any two of      *)
(* these steps.  The device hook declines every request here.              *)
(***************************************************************************)
\* A setMode or setBoost request.
SetModeRequest(type, enabled) ==
    [op |-> "setMode", type |-> type, enabled |-> enabled, durationMs |-> 0]
SetBoostRequest(type, durationMs) ==
    [op |-> "setBoost", type |-> type, enabled |-> FALSE, durationMs |-> durationMs]

\* The requests that overlap in SpecConcurrent.
OverlapRequests ==
    {SetModeRequest(SUSTAINED_PERFORMANCE, TRUE), SetModeRequest(SUSTAINED_PERFORMANCE, FALSE),
     SetModeRequest(LAUNCH, TRUE), SetBoostRequest(ML_ACC, 0)}

\* A request accepted on a thread, before its handler has run; sp, bs and h
\* record the state the overlap started in.
Thread(call, sp, bs, h) ==
    [call |-> call, pc |-> "start", todo |-> <<>>, sp |-> sp, bs |-> bs, h |-> h]

\* The backend calls a handler decides on when it reads the flags sp, bs and
\* the backend's hints h.
HandlerCalls(call, sp, bs, h) ==
    IF call.op = "setMode"
    THEN setModeSwitch(call.type, call.enabled, sp, bs, h)
    ELSE setBoostSwitch(call.type, call.durationMs, sp, bs)

\* Two requests arrive while none is being handled.
Overlap(first, second) ==
    /\ Len(inflight) = 0
    /\ inflight' = <<Thread(first, mSustainedPerfModeOn, mBatterySaverOn, hints),
                     Thread(second, mSustainedPerfModeOn, mBatterySaverOn, hints)>>
    /\ UNCHANGED <<mSustainedPerfModeOn, mBatterySaverOn, mServiceVersion, hints,
                   adpfSupported, req, events, ret>>

\* Thread i enters the switch: it reads the flags and the hint list.
ThreadDispatch(i) ==
    /\ i \in 1..Len(inflight)
    /\ inflight[i].pc = "start"
    /\ inflight' = [inflight EXCEPT
                      ![i].pc = "calls",
                      ![i].todo = HandlerCalls(inflight[i].call, mSustainedPerfModeOn,
                                               mBatterySaverOn, hints)]
    /\ UNCHANGED <<mSustainedPerfModeOn, mBatterySaverOn, mServiceVersion, hints,
                   adpfSupported, req, events, ret>>

\* Thread i makes its next backend call.
ThreadCall(i) ==
    /\ i \in 1..Len(inflight)
    /\ inflight[i].pc = "calls"
    /\ inflight[i].todo # <<>>
    /\ hints' = ApplyCall(hints, Head(inflight[i].todo))
    /\ inflight' = [inflight EXCEPT ![i].todo = Tail(inflight[i].todo)]
    /\ UNCHANGED <<mSustainedPerfModeOn, mBatterySaverOn, mServiceVersion,
                   adpfSupported, req, events, ret>>

\* Thread i has made its calls: a global mode assigns its flag, and the
\* handler returns.
ThreadReturn(i) ==
    /\ i \in 1..Len(inflight)
    /\ inflight[i].pc = "calls"
    /\ inflight[i].todo = <<>>
    /\ LET call == inflight[i].call
       IN  /\ mSustainedPerfModeOn' =
                  IF call.op = "setMode"
                  THEN setModeSustainedPerf(call.type, call.enabled, mSustainedPerfModeOn)
                  ELSE mSustainedPerfModeOn
           /\ mBatterySaverOn' =
                  IF call.op = "setMode"
                  THEN setModeBatterySaver(call.type, call.enabled, mBatterySaverOn)
                  ELSE mBatterySaverOn
    /\ inflight' = [inflight EXCEPT ![i].pc = "done"]
    /\ UNCHANGED <<mServiceVersion, hints, adpfSupported, req, events, ret>>

\* Both handlers have returned.
OverlapEnd ==
    /\ Len(inflight) > 0
    /\ \A i \in 1..Len(inflight) : inflight[i].pc = "done"
    /\ inflight' = <<>>
    /\ UNCHANGED <<mSustainedPerfModeOn, mBatterySaverOn, mServiceVersion, hints,
                   adpfSupported, req, events, ret>>

(***************************************************************************)
(* Specifications.                                                         *)
(***************************************************************************)
\* A call of setMode.
SetModeStep == \E type \in DispatchModes, enabled \in BOOLEAN, handled \in BOOLEAN :
                  setMode(type, enabled, handled)

\* A call of setBoost.
SetBoostStep == \E type \in DispatchBoosts, durationMs \in DurationsMs :
                   setBoost(type, durationMs)

\* A call of isModeSupported.  A hook that claims no answer leaves none.
IsModeSupportedStep ==
    \E type \in Mode, claimed \in BOOLEAN, answer \in BOOLEAN,
       hintSupported \in BOOLEAN, profileSupported \in BOOLEAN :
        /\ (~claimed => ~answer)
        /\ isModeSupported(type, claimed, answer, hintSupported, profileSupported)

\* A call of isBoostSupported.
IsBoostSupportedStep ==
    \E type \in Boost, hintSupported \in BOOLEAN, profileSupported \in BOOLEAN :
        isBoostSupported(type, hintSupported, profileSupported)

\* A call of dump.
DumpStep == \E writeOk \in BOOLEAN : dump(writeOk)

\* A call of getHintSessionPreferredRate.
GetHintSessionPreferredRateStep ==
    \E rateLimitNs \in RateLimitsNs : getHintSessionPreferredRate(rateLimitNs)

\* A call of createHintSessionWithConfig, directly or from createHintSession.
CreateHintSessionStep ==
    \E size \in ThreadIdCounts : createHintSessionWithConfig(size)

\* The requests of every kind, over a few modes and boosts of each branch.
SetModeRequestStep ==
    \E type \in RequestModes, enabled \in BOOLEAN, handled \in BOOLEAN :
        setMode(type, enabled, handled)
SetBoostRequestStep ==
    \E type \in DispatchBoosts, durationMs \in DurationsMs :
        setBoost(type, durationMs)
IsModeSupportedRequestStep ==
    \E type \in QueryModes, claimed \in BOOLEAN, answer \in BOOLEAN,
       hintSupported \in BOOLEAN, profileSupported \in BOOLEAN :
        /\ (~claimed => ~answer)
        /\ isModeSupported(type, claimed, answer, hintSupported, profileSupported)
IsBoostSupportedRequestStep ==
    \E type \in QueryBoosts, hintSupported \in BOOLEAN, profileSupported \in BOOLEAN :
        isBoostSupported(type, hintSupported, profileSupported)

\* Two requests start to overlap.
OverlapStep == \E first \in OverlapRequests, second \in OverlapRequests :
                  Overlap(first, second)

\* A step of one of the two threads.
ThreadStep == \E i \in 1..2 : ThreadDispatch(i) \/ ThreadCall(i) \/ ThreadReturn(i)

\* The mode and boost requests.
NextDispatch == SetModeStep \/ SetBoostStep

\* The capability queries.
NextCapability == IsModeSupportedStep \/ IsBoostSupportedStep

\* Requests of every kind, one at a time.
NextRequests ==
    \/ SetModeRequestStep
    \/ SetBoostRequestStep
    \/ IsModeSupportedRequestStep
    \/ IsBoostSupportedRequestStep
    \/ DumpStep
    \/ GetHintSessionPreferredRateStep
    \/ CreateHintSessionStep

\* Pairs of overlapping setMode and setBoost requests.
NextConcurrent == OverlapStep \/ ThreadStep \/ OverlapEnd

Next ==
    \/ SetModeStep
    \/ SetBoostStep
    \/ IsModeSupportedStep
    \/ IsBoostSupportedStep
    \/ DumpStep
    \/ GetHintSessionPreferredRateStep
    \/ CreateHintSessionStep
    \/ OverlapStep
    \/ ThreadStep
    \/ OverlapEnd

Spec == Init /\ [][Next]_vars

\* The program restricted to setMode and setBoost requests.
SpecDispatch == Init /\ [][NextDispatch]_vars

\* The program restricted to the capability queries.
SpecCapability == Init /\ [][NextCapability]_vars

\* The program serving requests of every kind one at a time.
SpecRequests == Init /\ [][NextRequests]_vars

\* The program serving pairs of overlapping requests.
SpecConcurrent == Init /\ [][NextConcurrent]_vars

(***************************************************************************)
(* Vocabulary of the properties.  These are written from the statements,   *)
(* not from the handlers above.                                            *)
(***************************************************************************)
\* The calls of a request that activate or deactivate a hint in the backend.
BackendCalls(ev) == SelectSeq(ev, LAMBDA e : e.fn \in {"DoHint", "EndHint"})
\* The capability queries of a request to the backend.
BackendQueries(ev) == SelectSeq(ev, LAMBDA e : e.fn \in {"IsHintSupported", "IsAdpfProfileSupported"})
\* The user-interaction signals of a request.
Signals(ev) == SelectSeq(ev, LAMBDA e : e.fn = "Acquire")
\* The two global modes.
GlobalModes == {SUSTAINED_PERFORMANCE, LOW_POWER}
\* The names of the hints of AlwaysAllowedSet.
AlwaysAllowedNames == {"DOUBLE_TAP_TO_WAKE", "DEVICE_IDLE", "DISPLAY_INACTIVE"}
\* The interface version a mode was introduced at.
ModeCutoff(type) ==
    IF type <= CAMERA_STREAMING_HIGH THEN 1 ELSE IF type <= GAME_LOADING THEN 3 ELSE 5
\* The interface version a boost was introduced at.
BoostCutoff(type) == 1
\* The backend call the request (name, enabled) asks for.
HintCall(name, enabled) == IF enabled THEN DoHintCall(name) ELSE EndHintCall(name)
\* The backend call the duration rule prescribes for a boost.
DurationCall(name, durationMs) ==
    IF durationMs > 0 THEN DoHintTimedCall(name, durationMs)
    ELSE IF durationMs = 0 THEN DoHintCall(name)
    ELSE EndHintCall(name)
\* The request just handled is a setMode the device hook did not handle.
IsSetMode(r) == r.op = "setMode" /\ ~r.handled
\* A global flag is set.
GlobalFlagOn == mSustainedPerfModeOn \/ mBatterySaverOn

(***************************************************************************)
(* C1.  A setMode(m, enabled) of a mode m other than SUSTAINED_PERFORMANCE *)
(* and LOW_POWER that the device hook does not handle makes a backend call *)
(* (activate m's hint if enabled, deactivate it otherwise) if and only if  *)
(* both global flags are false or m is always allowed; when suppressed it  *)
(* makes no backend call, for enable and disable alike.                    *)
(***************************************************************************)
C1_OtherModeForwardedIffAllowed ==
    [][ (IsSetMode(req') /\ req'.type \notin GlobalModes) =>
          BackendCalls(events') =
             IF ~GlobalFlagOn \/ req'.type \in {DOUBLE_TAP_TO_WAKE, DEVICE_IDLE, DISPLAY_INACTIVE}
             THEN <<HintCall(ModeName(req'.type), req'.enabled)>>
             ELSE <<>> ]_vars

\* LAUNCH is suppressed in sustained-performance mode while the always
\* allowed DEVICE_IDLE went through.
C1_Witness ==
    /\ IsSetMode(req) /\ req.type = LAUNCH /\ req.enabled
    /\ mSustainedPerfModeOn
    /\ BackendCalls(events) = <<>>
    /\ "DEVICE_IDLE" \in hints

(***************************************************************************)
(* C2.  An un-overridden setMode(g, true) of a global mode g applies       *)
(* whatever the flags are: on return the active hint set is the previously *)
(* active always-allowed hints plus g's hint, g's flag is true, and the    *)
(* sweep's deactivations all precede the activation of g's hint.           *)
(***************************************************************************)
C2_GlobalEnableSweepsThenActivates ==
    [][ (IsSetMode(req') /\ req'.type \in GlobalModes /\ req'.enabled) =>
          LET calls == BackendCalls(events')
              n == Len(calls)
          IN  /\ hints' = (hints \cap AlwaysAllowedNames) \cup {ModeName(req'.type)}
              /\ (req'.type = SUSTAINED_PERFORMANCE => mSustainedPerfModeOn')
              /\ (req'.type = LOW_POWER => mBatterySaverOn')
              /\ n >= 1
              /\ calls[n] = DoHintCall(ModeName(req'.type))
              /\ \A i \in 1..(n - 1) : calls[i].fn = "EndHint"
              /\ hints \ AlwaysAllowedNames \subseteq {calls[i].name : i \in 1..(n - 1)}
              /\ \A i \in 1..(n - 1) : calls[i].name \notin AlwaysAllowedNames ]_vars

\* SUSTAINED_PERFORMANCE was enabled while battery saver was on: the sweep
\* ended the LOW_POWER hint and left DEVICE_IDLE.
C2_Witness ==
    /\ IsSetMode(req) /\ req.type = SUSTAINED_PERFORMANCE /\ req.enabled
    /\ mBatterySaverOn /\ mSustainedPerfModeOn
    /\ hints = {"DEVICE_IDLE", "SUSTAINED_PERFORMANCE"}
    /\ BackendCalls(events) = <<EndHintCall("LOW_POWER"), DoHintCall("SUSTAINED_PERFORMANCE")>>

(***************************************************************************)
(* C3.  An un-overridden setMode(g, false) of a global mode g deactivates  *)
(* g's hint and clears g's flag, leaving the other flag; a setMode(LAUNCH, *)
(* true) that follows it is forwarded to the backend when the other flag   *)
(* is false and stays suppressed while the other flag is true.             *)
(***************************************************************************)
C3_GlobalDisableLiftsSuppression ==
    [][ /\ (IsSetMode(req') /\ req'.type \in GlobalModes /\ ~req'.enabled) =>
              /\ BackendCalls(events') = <<EndHintCall(ModeName(req'.type))>>
              /\ ModeName(req'.type) \notin hints'
              /\ (req'.type = SUSTAINED_PERFORMANCE =>
                     ~mSustainedPerfModeOn' /\ mBatterySaverOn' = mBatterySaverOn)
              /\ (req'.type = LOW_POWER =>
                     ~mBatterySaverOn' /\ mSustainedPerfModeOn' = mSustainedPerfModeOn)
        /\ (/\ IsSetMode(req) /\ req.type \in GlobalModes /\ ~req.enabled
            /\ IsSetMode(req') /\ req'.type = LAUNCH /\ req'.enabled) =>
              LET other == IF req.type = SUSTAINED_PERFORMANCE
                           THEN mBatterySaverOn ELSE mSustainedPerfModeOn
              IN  /\ ~other => BackendCalls(events') = <<DoHintCall("LAUNCH")>>
                                /\ "LAUNCH" \in hints'
                  /\ other => BackendCalls(events') = <<>> ]_vars

\* SUSTAINED_PERFORMANCE was just disabled with battery saver off.
C3_Witness ==
    /\ IsSetMode(req) /\ req.type = SUSTAINED_PERFORMANCE /\ ~req.enabled
    /\ ~mSustainedPerfModeOn /\ ~mBatterySaverOn
    /\ "SUSTAINED_PERFORMANCE" \notin hints
    /\ "DISPLAY_INACTIVE" \in hints

(***************************************************************************)
(* C4.  While a global flag is true, setBoost(b, d) of every boost and     *)
(* every duration makes no backend call and sends no user-interaction      *)
(* signal.                                                                 *)
(***************************************************************************)
C4_BoostSuppressedUnderGlobalFlag ==
    [][ (req'.op = "setBoost" /\ GlobalFlagOn) =>
          /\ BackendCalls(events') = <<>>
          /\ Signals(events') = <<>>
          /\ hints' = hints ]_vars

\* An INTERACTION boost with a positive duration under battery saver alone.
C4_Witness ==
    /\ req.op = "setBoost" /\ req.type = INTERACTION /\ req.durationMs > 0
    /\ mBatterySaverOn /\ ~mSustainedPerfModeOn
    /\ events = <<>>

(***************************************************************************)
(* C5.  With both flags false, setBoost(b, d) of every boost b makes       *)
(* exactly one backend call on b's hint: activate with expiry d when       *)
(* d > 0, activate without expiry when d = 0, deactivate when d < 0.       *)
(***************************************************************************)
C5_Original ==
    [][ (req'.op = "setBoost" /\ ~GlobalFlagOn) =>
          BackendCalls(events') =
             <<DurationCall(BoostName(req'.type), req'.durationMs)>> ]_vars

\* C5 as amended: the duration rule holds of every boost other than
\* INTERACTION; for INTERACTION setBoost makes no backend call of its own.
C5_DurationRuleExceptInteraction ==
    [][ (req'.op = "setBoost" /\ ~GlobalFlagOn) =>
          BackendCalls(events') =
             IF req'.type = INTERACTION THEN <<>>
             ELSE <<DurationCall(BoostName(req'.type), req'.durationMs)>> ]_vars

\* ML_ACC was activated without expiry.
C5_Witness ==
    /\ req.op = "setBoost" /\ req.type = ML_ACC /\ req.durationMs = 0
    /\ ~GlobalFlagOn
    /\ events = <<DoHintCall("ML_ACC")>>
    /\ "ML_ACC" \in hints

(***************************************************************************)
(* C6.  With both flags false, setBoost(INTERACTION, d) sends the          *)
(* user-interaction signal in addition to the backend call the duration    *)
(* rule prescribes; setBoost of any other boost never sends the signal.    *)
(***************************************************************************)
C6_Original ==
    [][ req'.op = "setBoost" =>
          IF req'.type = INTERACTION /\ ~GlobalFlagOn
          THEN /\ Signals(events') = <<AcquireCall(req'.durationMs)>>
               /\ BackendCalls(events') = <<DurationCall("INTERACTION", req'.durationMs)>>
          ELSE req'.type # INTERACTION => Signals(events') = <<>> ]_vars

\* C6 as amended: the signal, carrying d, is all that setBoost(INTERACTION,
\* d) does; it takes the place of the backend call.
C6_InteractionSignalsOnly ==
    [][ req'.op = "setBoost" =>
          IF req'.type = INTERACTION /\ ~GlobalFlagOn
          THEN events' = <<AcquireCall(req'.durationMs)>> /\ hints' = hints
          ELSE req'.type # INTERACTION => Signals(events') = <<>> ]_vars

\* An INTERACTION boost with a negative duration, both flags false.
C6_Witness ==
    /\ req.op = "setBoost" /\ req.type = INTERACTION /\ req.durationMs < 0
    /\ ~GlobalFlagOn
    /\ events = <<AcquireCall(req.durationMs)>>

(***************************************************************************)
(* C7.  A setMode or setBoost request results in a backend hint call if    *)
(* and only if the value passes the capability gate at the negotiated      *)
(* version and the exclusivity gate.  The capability gate is taken at its  *)
(* most favourable: no device hook, a backend that recognises every hint.  *)
(***************************************************************************)
C7_Original ==
    [][ /\ IsSetMode(req') =>
              (BackendCalls(events') # <<>> <=>
                 /\ isModeSupportedValue(req'.type, mServiceVersion, FALSE, FALSE, TRUE, TRUE)
                 /\ \/ req'.type \in GlobalModes
                    \/ ~GlobalFlagOn
                    \/ req'.type \in kAlwaysAllowedModes)
        /\ req'.op = "setBoost" =>
              (BackendCalls(events') # <<>> <=>
                 /\ isBoostSupportedValue(req'.type, mServiceVersion, TRUE, TRUE)
                 /\ ~GlobalFlagOn) ]_vars

\* C7 as amended: the exclusivity gate alone decides.  An un-overridden
\* setMode makes a backend call if and only if the mode is a global mode,
\* or is always allowed, or both flags are false; setBoost if and only if
\* both flags are false and the boost is not INTERACTION.
C7_ExclusivityGateAlone ==
    [][ /\ IsSetMode(req') =>
              (BackendCalls(events') # <<>> <=>
                 \/ req'.type \in GlobalModes
                 \/ ~GlobalFlagOn
                 \/ req'.type \in {DOUBLE_TAP_TO_WAKE, DEVICE_IDLE, DISPLAY_INACTIVE})
        /\ req'.op = "setBoost" =>
              (BackendCalls(events') # <<>> <=>
                 ~GlobalFlagOn /\ req'.type # INTERACTION) ]_vars

\* GAME_LOADING, introduced at version 3, is forwarded at version 1.
C7_Witness ==
    /\ IsSetMode(req) /\ req.type = GAME_LOADING /\ req.enabled
    /\ mServiceVersion = 1
    /\ BackendCalls(events) = <<DoHintCall("GAME_LOADING")>>
    /\ "GAME_LOADING" \in hints

(***************************************************************************)
(* C8.  For a mode m whose version cutoff exceeds the negotiated version,  *)
(* isModeSupported(m) returns false and makes no backend capability query, *)
(* whatever the device hook would answer.                                  *)
(***************************************************************************)
C8_Original ==
    (req.op = "isModeSupported" /\ ModeCutoff(req.type) > mServiceVersion) =>
        /\ ret.value = FALSE
        /\ BackendQueries(events) = <<>>

\* C8 as amended: no backend query is made, and the answer is false unless
\* the device hook, which is asked first, claims one: then it is the hook's.
C8_BelowCutoffNoBackendQuery ==
    (req.op = "isModeSupported" /\ ModeCutoff(req.type) > mServiceVersion) =>
        /\ BackendQueries(events) = <<>>
        /\ ret.value = (IF req.claimed THEN req.answer ELSE FALSE)
        /\ ret.status = "ok"

\* The hook says GAME_LOADING is supported at version 2.
C8_Witness ==
    /\ req.op = "isModeSupported" /\ req.type = GAME_LOADING
    /\ mServiceVersion = 2
    /\ req.claimed /\ req.answer
    /\ ret.value = TRUE
    /\ BackendQueries(events) = <<>>

(***************************************************************************)
(* C9.  The version gate rejects a mode or boost exactly when the          *)
(* negotiated version is below the value's introduction version, also at   *)
(* versions greater than 5.  A request passes the gate when it gets as far *)
(* as the backend: with no hook claim and a backend that recognises the    *)
(* hint, that is when it returns true.                                     *)
(***************************************************************************)
C9_Original ==
    /\ (req.op = "isModeSupported" /\ ~req.claimed /\ req.hintSupported) =>
          (ret.value <=> mServiceVersion >= ModeCutoff(req.type))
    /\ (req.op = "isBoostSupported" /\ req.hintSupported) =>
          (ret.value <=> mServiceVersion >= BoostCutoff(req.type))

(***************************************************************************)
(* C10.  For a mode m that passes the version gate: if the device hook     *)
(* claims an answer, isModeSupported(m) returns it without querying the    *)
(* backend; otherwise it returns true for LOW_POWER whatever the backend   *)
(* reports, and for every other mode true if and only if the backend       *)
(* recognises m's hint or reports m's profile capability.                  *)
(***************************************************************************)
C10_SupportedPastGate ==
    (req.op = "isModeSupported" /\ ModeVersionGate(mServiceVersion, req.type)) =>
        IF req.claimed
        THEN ret.value = req.answer /\ BackendQueries(events) = <<>>
        ELSE IF req.type = LOW_POWER THEN ret.value = TRUE
        ELSE ret.value = (req.hintSupported \/ req.profileSupported)

\* LOW_POWER is supported with a backend that knows neither hint nor profile.
C10_Witness ==
    /\ req.op = "isModeSupported" /\ req.type = LOW_POWER
    /\ ModeVersionGate(mServiceVersion, req.type)
    /\ ~req.claimed /\ ~req.hintSupported /\ ~req.profileSupported
    /\ ret.value = TRUE

(***************************************************************************)
(* C11.  isBoostSupported(b) returns false for every boost, CAMERA_SHOT    *)
(* included, when the version is 0 or lower, without querying the backend; *)
(* at versions 1 to 5 it returns, for every boost ranked up to             *)
(* CAMERA_SHOT, true if and only if the backend recognises b's hint or     *)
(* reports b's profile capability; the device hook is never consulted.     *)
(***************************************************************************)
C11_BoostSupport ==
    req.op = "isBoostSupported" =>
        /\ mServiceVersion <= 0 =>
               ret.value = FALSE /\ BackendQueries(events) = <<>>
        /\ (mServiceVersion \in 1..5 /\ req.type <= CAMERA_SHOT) =>
               ret.value = (req.hintSupported \/ req.profileSupported)
        /\ \A k \in 1..Len(events) : events[k].fn # "isDeviceSpecificModeSupported"

\* CAMERA_SHOT is unsupported at version 0 though the backend knows its hint.
C11_Witness ==
    /\ req.op = "isBoostSupported" /\ req.type = CAMERA_SHOT
    /\ mServiceVersion = 0 /\ req.hintSupported
    /\ ret.value = FALSE /\ events = <<>>

(***************************************************************************)
(* C13.  Idempotence: a second setMode(X, true) directly after a           *)
(* setMode(X, true), the device hook answering alike, leaves the global    *)
(* flags and the active hint set as the first call left them, also for     *)
(* X = SUSTAINED_PERFORMANCE and X = LOW_POWER, whose second call sweeps   *)
(* their own already-active hint and activates it again.                   *)
(***************************************************************************)
C13_SetModeIdempotent ==
    [][(/\ req.op = "setMode" /\ req.enabled
        /\ req'.op = "setMode" /\ req'.enabled
        /\ req'.type = req.type /\ req'.handled = req.handled)
       => /\ mSustainedPerfModeOn' = mSustainedPerfModeOn
          /\ mBatterySaverOn' = mBatterySaverOn
          /\ hints' = hints]_vars

\* A setMode(LOW_POWER, true) that swept the LOW_POWER hint itself and
\* activated it again.
C13_Witness ==
    /\ IsSetMode(req) /\ req.type = LOW_POWER /\ req.enabled
    /\ BackendCalls(events) = <<EndHintCall("LOW_POWER"), DoHintCall("LOW_POWER")>>
    /\ mBatterySaverOn /\ "LOW_POWER" \in hints

(***************************************************************************)
(* C15.  With ADPF support in the backend, every setMode(m, enabled)       *)
(* notifies the session registry of (m, enabled) exactly once, before the  *)
(* offer to the device hook and before every backend hint call of the      *)
(* request, also when the hook then handles the request or the global      *)
(* flags suppress it.  Without ADPF support setMode never notifies it.     *)
(***************************************************************************)
C15_SessionRegistryNotifiedFirst ==
    req.op = "setMode" =>
        LET notes == {k \in 1..Len(events) : events[k].fn = "updateHintMode"}
            later == {k \in 1..Len(events) :
                         events[k].fn \in {"setDeviceSpecificMode", "DoHint", "EndHint"}}
        IN  IF adpfSupported
            THEN /\ Cardinality(notes) = 1
                 /\ \A k \in notes :
                       /\ events[k].name = ModeName(req.type)
                       /\ events[k].on = req.enabled
                       /\ \A j \in later : k < j
                 /\ \E j \in later : events[j].fn = "setDeviceSpecificMode"
            ELSE notes = {}

\* A LAUNCH request suppressed under sustained performance was still
\* announced to the session registry.
C15_Witness ==
    /\ IsSetMode(req) /\ req.type = LAUNCH /\ req.enabled
    /\ adpfSupported /\ mSustainedPerfModeOn
    /\ BackendCalls(events) = <<>>
    /\ events[1] = UpdateHintModeCall("LAUNCH", TRUE)

(***************************************************************************)
(* C16.  When the device hook reports that it handled setMode(m, enabled), *)
(* the core makes no backend activate or deactivate call, runs no sweep,   *)
(* and leaves both global flags unchanged, also for SUSTAINED_PERFORMANCE  *)
(* and LOW_POWER.                                                          *)
(***************************************************************************)
C16_HandledBypassesDispatch ==
    [][(req'.op = "setMode" /\ req'.handled)
       => /\ BackendCalls(events') = <<>>
          /\ mSustainedPerfModeOn' = mSustainedPerfModeOn
          /\ mBatterySaverOn' = mBatterySaverOn]_vars

\* A handled setMode(SUSTAINED_PERFORMANCE, true) left suppression off and
\* a hint active.
C16_Witness ==
    /\ req.op = "setMode" /\ req.handled
    /\ req.type = SUSTAINED_PERFORMANCE /\ req.enabled
    /\ ~mSustainedPerfModeOn /\ ~mBatterySaverOn
    /\ "LAUNCH" \in hints

(***************************************************************************)
(* C20.  With requests handled one at a time, an active                    *)
(* SUSTAINED_PERFORMANCE (LOW_POWER) hint implies that                     *)
(* mSustainedPerfModeOn (mBatterySaverOn) is true.  The converse fails:    *)
(* enabling one global mode sweeps the other's hint and leaves the other's *)
(* flag, so after setMode(SUSTAINED_PERFORMANCE, true),                    *)
(* setMode(LOW_POWER, true), setMode(LOW_POWER, false) the sustained flag  *)
(* is true with neither global hint active.  While the sustained flag is   *)
(* true it stays true, and boosts and modes outside the allow-list stay    *)
(* suppressed, until a setMode(SUSTAINED_PERFORMANCE, false) that the hook *)
(* does not handle; and disabling a global mode activates no hint, so      *)
(* swept hints do not come back.                                           *)
(***************************************************************************)
C20_FlagOutlivesHint ==
    /\ []( /\ "SUSTAINED_PERFORMANCE" \in hints => mSustainedPerfModeOn
           /\ "LOW_POWER" \in hints => mBatterySaverOn )
    /\ [][ /\ (/\ mSustainedPerfModeOn
               /\ ~(IsSetMode(req') /\ req'.type = SUSTAINED_PERFORMANCE /\ ~req'.enabled))
              => /\ mSustainedPerfModeOn'
                 /\ req'.op = "setBoost" =>
                        BackendCalls(events') = <<>> /\ Signals(events') = <<>>
                 /\ (IsSetMode(req') /\ req'.type \notin GlobalModes \cup kAlwaysAllowedModes)
                        => BackendCalls(events') = <<>>
           /\ (IsSetMode(req') /\ req'.type \in GlobalModes /\ ~req'.enabled)
              => hints' \subseteq hints ]_vars

\* The sustained flag is set, LOW_POWER has just been disabled, and neither
\* global hint is active.
C20_Witness ==
    /\ IsSetMode(req) /\ req.type = LOW_POWER /\ ~req.enabled
    /\ mSustainedPerfModeOn /\ ~mBatterySaverOn
    /\ "SUSTAINED_PERFORMANCE" \notin hints /\ "LOW_POWER" \notin hints

(***************************************************************************)
(* C19.  After construction mSustainedPerfModeOn is true, with the         *)
(* SUSTAINED_PERFORMANCE hint activated, if and only if the persisted      *)
(* state value is "SUSTAINED_PERFORMANCE"; mBatterySaverOn is false        *)
(* whatever is persisted; the audio-low-latency and expensive-rendering    *)
(* hints are each activated exactly once if and only if their persisted    *)
(* value is the sentinel, with no exclusivity gate, so a startup hint can  *)
(* be active under a true sustained flag.                                  *)
(***************************************************************************)
\* The two startup hints.
StartupHints == {"AUDIO_STREAMING_LOW_LATENCY", "EXPENSIVE_RENDERING"}
\* How many times the constructor activated the hint called name.
Activations(name) == Cardinality({k \in 1..Len(events) : events[k] = DoHintCall(name)})

C19_Constructed ==
    req.op = "Power" =>
        /\ mSustainedPerfModeOn = (req.state = "SUSTAINED_PERFORMANCE")
        /\ ("SUSTAINED_PERFORMANCE" \in hints) = (req.state = "SUSTAINED_PERFORMANCE")
        /\ Activations("SUSTAINED_PERFORMANCE") =
               (IF req.state = "SUSTAINED_PERFORMANCE" THEN 1 ELSE 0)
        /\ ~mBatterySaverOn
        /\ Activations("AUDIO_STREAMING_LOW_LATENCY") =
               (IF req.audio = "AUDIO_STREAMING_LOW_LATENCY" THEN 1 ELSE 0)
        /\ Activations("EXPENSIVE_RENDERING") =
               (IF req.rendering = "EXPENSIVE_RENDERING" THEN 1 ELSE 0)
        /\ \A name \in StartupHints : (name \in hints) = (Activations(name) = 1)

\* C19 as stated: moreover no setMode ends a startup hint while the
\* sustained flag stays true.
C19_Original ==
    /\ []C19_Constructed
    /\ [][(mSustainedPerfModeOn /\ mSustainedPerfModeOn' /\ req'.op = "setMode")
          => (hints \cap StartupHints) \subseteq hints']_vars

\* C19 amended: while the sustained flag stays true, only the sweep of an
\* enabling setMode of a global mode ends a startup hint; every other
\* setMode leaves it active.
C19_StartupHintsUngated ==
    /\ []C19_Constructed
    /\ [][(/\ mSustainedPerfModeOn /\ mSustainedPerfModeOn' /\ req'.op = "setMode"
           /\ ~(IsSetMode(req') /\ req'.type \in GlobalModes /\ req'.enabled))
          => (hints \cap StartupHints) \subseteq hints']_vars

\* A disabling setMode(EXPENSIVE_RENDERING) under the sustained flag set at
\* construction left the startup hint active.
C19_Witness ==
    /\ IsSetMode(req) /\ req.type = EXPENSIVE_RENDERING /\ ~req.enabled
    /\ mSustainedPerfModeOn /\ "EXPENSIVE_RENDERING" \in hints
    /\ "SUSTAINED_PERFORMANCE" \in hints

(***************************************************************************)
(* C12.  isModeSupported and isBoostSupported are functions of the         *)
(* version, the backend's capability answers and the device hook's         *)
(* answer: whatever the global flags, the active hints and the requests    *)
(* served before, the answer is the one SupportAnswer gives for these      *)
(* three; and the queries change neither the flags nor the active hints.   *)
(***************************************************************************)
\* The answer as a function of the version and of the request's type, hook
\* answer and backend capability answers; it mentions no variable.
SupportAnswer(version, r) ==
    IF r.op = "isModeSupported"
    THEN IF r.claimed THEN r.answer
         ELSE /\ version \in 1..5
              /\ ModeCutoff(r.type) <= version
              /\ (r.type = LOW_POWER \/ r.hintSupported \/ r.profileSupported)
    ELSE /\ version \in 1..5
         /\ BoostCutoff(r.type) <= version
         /\ (r.hintSupported \/ r.profileSupported)

C12_QueriesDeterministic ==
    [][req'.op \in {"isModeSupported", "isBoostSupported"}
       => /\ ret'.value = SupportAnswer(mServiceVersion, req')
          /\ mSustainedPerfModeOn' = mSustainedPerfModeOn
          /\ mBatterySaverOn' = mBatterySaverOn
          /\ hints' = hints]_vars

\* LAUNCH is reported supported while both global flags are set and the
\* LOW_POWER hint is active.
C12_Witness ==
    /\ req.op = "isModeSupported" /\ req.type = LAUNCH /\ ~req.claimed
    /\ ret.value = TRUE
    /\ mSustainedPerfModeOn /\ mBatterySaverOn /\ "LOW_POWER" \in hints

(***************************************************************************)
(* C14.  setMode, setBoost, isModeSupported and isBoostSupported return    *)
(* ok for every input in every state.  getHintSessionPreferredRate returns *)
(* EX_UNSUPPORTED_OPERATION exactly when the backend has no ADPF support   *)
(* or its reporting-rate limit is not positive, and otherwise ok with that *)
(* positive interval.  Session creation returns EX_UNSUPPORTED_OPERATION   *)
(* without ADPF support, whatever the thread list, and EX_ILLEGAL_ARGUMENT *)
(* with it when the thread list is empty; on both errors the session is    *)
(* null and nothing is registered with the session manager.                *)
(***************************************************************************)
C14_ErrorOutcomes ==
    /\ req.op \in {"setMode", "setBoost", "isModeSupported", "isBoostSupported"}
          => ret.status = "ok"
    /\ req.op = "getHintSessionPreferredRate" =>
          IF ~adpfSupported \/ req.rateLimitNs <= 0
          THEN ret.status = "EX_UNSUPPORTED_OPERATION"
          ELSE ret.status = "ok" /\ ret.value = req.rateLimitNs /\ ret.value > 0
    /\ req.op = "createHintSessionWithConfig" =>
          /\ ~adpfSupported => ret.status = "EX_UNSUPPORTED_OPERATION"
          /\ (adpfSupported /\ req.size = 0) => ret.status = "EX_ILLEGAL_ARGUMENT"
          /\ ret.status # "ok" =>
                /\ ret.value = "nullptr"
                /\ \A k \in 1..Len(events) : events[k].fn # "registerSession"

\* A session request with an empty thread list and no ADPF support is
\* answered unsupported, not illegal argument.
C14_Witness ==
    /\ req.op = "createHintSessionWithConfig" /\ req.size = 0 /\ ~adpfSupported
    /\ ret.status = "EX_UNSUPPORTED_OPERATION" /\ ret.value = "nullptr"
    /\ events = <<>>

(***************************************************************************)
(* C18.  Frame: mSustainedPerfModeOn changes only in a                     *)
(* setMode(SUSTAINED_PERFORMANCE, e) the hook does not handle, and becomes *)
(* e; mBatterySaverOn changes only in such a setMode(LOW_POWER, e), and    *)
(* becomes e; each leaves the other flag as it was, and setBoost, the two  *)
(* queries, dump and setMode of every other mode leave both as they were.  *)
(* No request changes mServiceVersion.                                     *)
(***************************************************************************)
C18_FlagFrame ==
    [][/\ (IsSetMode(req') /\ req'.type = SUSTAINED_PERFORMANCE)
             => mSustainedPerfModeOn' = req'.enabled
       /\ ~(IsSetMode(req') /\ req'.type = SUSTAINED_PERFORMANCE)
             => mSustainedPerfModeOn' = mSustainedPerfModeOn
       /\ (IsSetMode(req') /\ req'.type = LOW_POWER)
             => mBatterySaverOn' = req'.enabled
       /\ ~(IsSetMode(req') /\ req'.type = LOW_POWER)
             => mBatterySaverOn' = mBatterySaverOn
       /\ mServiceVersion' = mServiceVersion]_vars

\* An enabling setMode(LOW_POWER) left the sustained flag set.
C18_Witness ==
    /\ IsSetMode(req) /\ req.type = LOW_POWER /\ req.enabled
    /\ mBatterySaverOn /\ mSustainedPerfModeOn

(***************************************************************************)
(* C17.  Overlapping setMode and setBoost requests are atomic with respect *)
(* to the global flags: when both have returned, the flags and the active  *)
(* hint set are those some serial order of the two requests produces from  *)
(* the state they started in.  In particular, after a completed            *)
(* setMode(SUSTAINED_PERFORMANCE, true) that left the flag set, no boost   *)
(* hint and no mode hint outside the allow-list besides its own is active; *)
(* and after an overlapping setMode(SUSTAINED_PERFORMANCE, true) and       *)
(* setMode(SUSTAINED_PERFORMANCE, false) the flag agrees with whether the  *)
(* SUSTAINED_PERFORMANCE hint is active.                                   *)
(***************************************************************************)
\* Flags and hints as one value.
FlagsAndHints(sp, bs, h) == [sp |-> sp, bs |-> bs, h |-> h]
\* The flags and hints after the request call is served alone from st.
Served(call, st) ==
    FlagsAndHints(
        IF call.op = "setMode"
            THEN IF call.type = SUSTAINED_PERFORMANCE THEN call.enabled ELSE st.sp
            ELSE st.sp,
        IF call.op = "setMode"
            THEN IF call.type = LOW_POWER THEN call.enabled ELSE st.bs
            ELSE st.bs,
        ApplyCalls(st.h, HandlerCalls(call, st.sp, st.bs, st.h)))
\* Both overlapping requests have returned.
OverlapDone == Len(inflight) = 2 /\ \A i \in 1..2 : inflight[i].pc = "done"

C17_Original ==
    OverlapDone =>
        LET a == inflight[1].call
            b == inflight[2].call
            start == FlagsAndHints(inflight[1].sp, inflight[1].bs, inflight[1].h)
            now == FlagsAndHints(mSustainedPerfModeOn, mBatterySaverOn, hints)
        IN  /\ now \in {Served(b, Served(a, start)), Served(a, Served(b, start))}
            /\ (/\ SetModeRequest(SUSTAINED_PERFORMANCE, TRUE) \in {a, b}
                /\ mSustainedPerfModeOn)
                  => hints \subseteq {"SUSTAINED_PERFORMANCE"} \cup AlwaysAllowedNames
            /\ {a, b} = {SetModeRequest(SUSTAINED_PERFORMANCE, TRUE),
                         SetModeRequest(SUSTAINED_PERFORMANCE, FALSE)}
                  => mSustainedPerfModeOn = ("SUSTAINED_PERFORMANCE" \in hints)

====
